---- MODULE Spec2Model ----
(***************************************************************************)
(* Model of zegie.discover.crawler.Crawler (src/src/zegie/discover/        *)
(* crawler.py): construction, the concurrent fetch-and-gather of crawl,    *)
(* and the chunker (_chunk_content, which truncates and then calls         *)
(* RecursiveCharacterTextSplitter.split_text).                             *)
(*                                                                         *)
(* A text is a sequence of one-character strings, so that slicing,         *)
(* stripping and splitting are computed and not assumed.                   *)
(***************************************************************************)
EXTENDS Integers, Sequences, FiniteSets, TLC

\* ------------------------------------------------------------------ bounds

\* Longest content handed to the chunker in SpecChunk.
MaxTextLen == 5
\* Largest chunk_size drawn in SpecChunk.
MaxChunkSize == 3
\* Largest number of auxiliary links of a Brand in Spec.
MaxLinks == 2

\* The worker threads of the event loop's default executor, which runs the
\* calls given to asyncio.to_thread (line 104).
Workers == 2

\* ------------------------------------------------------------ text helpers

NL == "\n"
SP == " "

\* The characters str.strip() removes that occur in the modelled texts.
Whitespace == {SP, NL}

Alphabet == {"a", "b", SP, NL}

Texts(n) == UNION {[1..k -> Alphabet] : k \in 0..n}

Min(a, b) == IF a < b THEN a ELSE b

Max(a, b) == IF a > b THEN a ELSE b

\* content[:n] for n >= 0, and for n < 0 (Python counts from the end).
Slice(s, n) ==
    IF n >= 0 THEN SubSeq(s, 1, Min(n, Len(s)))
    ELSE SubSeq(s, 1, Max(Len(s) + n, 0))

RECURSIVE LStrip(_)
LStrip(s) ==
    IF s # <<>> /\ Head(s) \in Whitespace THEN LStrip(Tail(s)) ELSE s

RECURSIVE RStrip(_)
RStrip(s) ==
    IF s # <<>> /\ s[Len(s)] \in Whitespace
    THEN RStrip(SubSeq(s, 1, Len(s) - 1))
    ELSE s

\* str.strip()
Strip(s) == RStrip(LStrip(s))

\* separator.join(docs)
RECURSIVE Join(_, _)
Join(docs, separator) ==
    IF docs = <<>> THEN <<>>
    ELSE IF Len(docs) = 1 THEN docs[1]
    ELSE docs[1] \o separator \o Join(Tail(docs), separator)

\* The concatenation of a sequence of sequences (list.extend, repeated).
RECURSIVE Flatten(_)
Flatten(ss) == IF ss = <<>> THEN <<>> ELSE Head(ss) \o Flatten(Tail(ss))

\* piece occurs in text as a contiguous slice
IsSlice(piece, text) ==
    \E i \in 1..(Len(text) + 1) :
        /\ i + Len(piece) - 1 <= Len(text)
        /\ SubSeq(text, i, i + Len(piece) - 1) = piece

\* ---------------------------------------------------------------- splitter

\* RecursiveCharacterTextSplitter's default separators: "\n\n", "\n", " ", "".
Separators == << <<NL, NL>>, <<NL>>, <<SP>>, <<>> >>

\* Start positions of the leftmost non-overlapping matches of separator
\* in text from position i on (re.split's matches).
RECURSIVE Matches(_, _, _)
Matches(text, separator, i) ==
    IF i + Len(separator) - 1 > Len(text) THEN <<>>
    ELSE IF SubSeq(text, i, i + Len(separator) - 1) = separator
         THEN <<i>> \o Matches(text, separator, i + Len(separator))
         ELSE Matches(text, separator, i + 1)

\* _split_text_with_regex(text, separator, keep_separator=True): each
\* separator stays at the start of the piece that follows it; empty pieces
\* are dropped; the empty separator splits into characters.
SplitTextWithRegex(text, separator) ==
    IF separator = <<>> THEN [k \in 1..Len(text) |-> <<text[k]>>]
    ELSE LET m == Matches(text, separator, 1)
             first == IF m = <<>> THEN text ELSE SubSeq(text, 1, m[1] - 1)
             rest == [j \in 1..Len(m) |->
                        SubSeq(text, m[j],
                               IF j < Len(m) THEN m[j + 1] - 1 ELSE Len(text))]
         IN  SelectSeq(<<first>> \o rest, LAMBDA s : s # <<>>)

\* _join_docs: the joined text stripped; <<>> stands for None.
\* A mutant of JoinDocs: the joined text is not stripped.
JoinDocsUnstripped(docs, separator) == Join(docs, separator)

JoinDocs(docs, separator) == Strip(Join(docs, separator))

\* A mutant of PopLoop: pieces are dropped only to make room for the next
\* piece, whatever the overlap.
RECURSIVE PopLoopIgnoringOverlap(_, _, _, _, _, _)
PopLoopIgnoringOverlap(current_doc, total, len, separator_len, chunk_size, chunk_overlap) ==
    IF /\ total + len + (IF Len(current_doc) > 0 THEN separator_len ELSE 0)
            > chunk_size
       /\ total > 0
    THEN PopLoopIgnoringOverlap(
             Tail(current_doc),
             total - (Len(current_doc[1])
                      + (IF Len(current_doc) > 1 THEN separator_len ELSE 0)),
             len, separator_len, chunk_size, chunk_overlap)
    ELSE [current_doc |-> current_doc, total |-> total]

\* The while loop of _merge_splits: drop pieces from the front of
\* current_doc until what is kept fits the overlap and leaves room for
\* the next piece.
RECURSIVE PopLoop(_, _, _, _, _, _)
PopLoop(current_doc, total, len, separator_len, chunk_size, chunk_overlap) ==
    IF \/ total > chunk_overlap
       \/ /\ total + len + (IF Len(current_doc) > 0 THEN separator_len ELSE 0)
               > chunk_size
          /\ total > 0
    THEN PopLoop(Tail(current_doc),
                 total - (Len(current_doc[1])
                          + (IF Len(current_doc) > 1 THEN separator_len ELSE 0)),
                 len, separator_len, chunk_size, chunk_overlap)
    ELSE [current_doc |-> current_doc, total |-> total]

\* A mutant of Overflows: the piece being added is not counted.
OverflowsIgnoringPiece(total, len, current_doc, separator_len, chunk_size) ==
    total > chunk_size

\* The test of _merge_splits that closes the current chunk.
Overflows(total, len, current_doc, separator_len, chunk_size) ==
    total + len + (IF Len(current_doc) > 0 THEN separator_len ELSE 0)
        > chunk_size

\* The for loop of _merge_splits from split k on.
RECURSIVE MergeLoop(_, _, _, _, _, _, _, _)
MergeLoop(splits, k, docs, current_doc, total, separator, chunk_size, chunk_overlap) ==
    IF k > Len(splits)
    THEN LET doc == JoinDocs(current_doc, separator)
         IN  IF doc # <<>> THEN Append(docs, doc) ELSE docs
    ELSE
      LET d == splits[k]
          len == Len(d)
          separator_len == Len(separator)
          flush == /\ Overflows(total, len, current_doc, separator_len,
                                chunk_size)
                   /\ Len(current_doc) > 0
          doc == JoinDocs(current_doc, separator)
          docs1 == IF flush /\ doc # <<>> THEN Append(docs, doc) ELSE docs
          kept == IF flush
                  THEN PopLoop(current_doc, total, len, separator_len,
                               chunk_size, chunk_overlap)
                  ELSE [current_doc |-> current_doc, total |-> total]
          current1 == Append(kept.current_doc, d)
      IN  MergeLoop(splits, k + 1, docs1, current1,
                    kept.total + len
                      + (IF Len(current1) > 1 THEN separator_len ELSE 0),
                    separator, chunk_size, chunk_overlap)

\* _merge_splits(splits, separator)
MergeSplits(splits, separator, chunk_size, chunk_overlap) ==
    MergeLoop(splits, 1, <<>>, <<>>, 0, separator, chunk_size, chunk_overlap)

\* The separator _split_text picks: the index of the first separator that
\* is empty or occurs in text.
RECURSIVE PickSeparator(_, _)
PickSeparator(text, i) ==
    IF i >= Len(Separators) THEN Len(Separators)
    ELSE IF Separators[i] = <<>> \/ Matches(text, Separators[i], 1) # <<>>
         THEN i
         ELSE PickSeparator(text, i + 1)

RECURSIVE SplitText(_, _, _, _)
RECURSIVE SplitLoop(_, _, _, _, _, _, _)

\* The for loop of _split_text over the pieces from piece k on; next is the
\* index of the first of new_separators (past the end when there is none).
SplitLoop(splits, k, final_chunks, good_splits, next, chunk_size, chunk_overlap) ==
    IF k > Len(splits)
    THEN IF good_splits # <<>>
         THEN final_chunks
                \o MergeSplits(good_splits, <<>>, chunk_size, chunk_overlap)
         ELSE final_chunks
    ELSE
      LET s == splits[k]
      IN  IF Len(s) < chunk_size
          THEN SplitLoop(splits, k + 1, final_chunks, Append(good_splits, s),
                         next, chunk_size, chunk_overlap)
          ELSE
            LET merged == IF good_splits # <<>>
                          THEN MergeSplits(good_splits, <<>>, chunk_size,
                                           chunk_overlap)
                          ELSE <<>>
                other == IF next > Len(Separators)
                         THEN <<s>>
                         ELSE SplitText(s, next, chunk_size, chunk_overlap)
            IN  SplitLoop(splits, k + 1, final_chunks \o merged \o other,
                          <<>>, next, chunk_size, chunk_overlap)

\* _split_text(text, separators), separators being Separators from index
\* from on. keep_separator is True, so pieces are merged with "".
SplitText(text, from, chunk_size, chunk_overlap) ==
    LET i == PickSeparator(text, from)
        separator == Separators[i]
        next == IF separator = <<>> THEN Len(Separators) + 1 ELSE i + 1
        splits == SplitTextWithRegex(text, separator)
    IN  SplitLoop(splits, 1, <<>>, <<>>, next, chunk_size, chunk_overlap)

\* A mutant of Truncate: the content is never cut.
TruncateNever(content, max_chunk_length) == content

\* Lines 123-124 of _chunk_content.
Truncate(content, max_chunk_length) ==
    IF Len(content) > max_chunk_length
    THEN Slice(content, max_chunk_length)
    ELSE content

\* _chunk_content(content) for a str content.
ChunkContent(content, cfg) ==
    IF content = <<>> THEN <<>>
    ELSE SplitText(Truncate(content, cfg.max_chunk_length), 1,
                   cfg.chunk_size, cfg.chunk_overlap)

\* ------------------------------------------------------------------ state

VARIABLES
    pc,        \* where the Crawler and its crawl call stand
    crawler,   \* the constructed Crawler's attributes
    brand,     \* the Brand passed to crawl
    urls,      \* the local urls of _async_crawl
    task,      \* per URL-list position: the state of its _load_document task
    outcome,   \* per position: what the page loader did
    calls,     \* per position: how often loader.load was invoked
    fut,       \* per position: what the task ended with
    order,     \* the positions in the order their tasks ended
    results,   \* the list gather returns
    chunks,    \* the local chunks of _async_crawl
    origin,    \* per chunk: the position of the result it was made from
    again,     \* whether the running or last crawl is the Crawler's second
    content    \* the argument of _chunk_content (SpecChunk)

vars == <<pc, crawler, brand, urls, task, outcome, calls, fut, order,
          results, chunks, origin, again, content>>

NoCrawler ==
    [timeout |-> 0, max_chunk_length |-> 0, chunk_size |-> 0,
     chunk_overlap |-> 0]

\* The argument tuples Crawler(...) is constructed with.
CrawlerArgs ==
    { [timeout |-> 1, max_chunk_length |-> 4, chunk_size |-> 3,
       chunk_overlap |-> 1],
      [timeout |-> -1, max_chunk_length |-> 9, chunk_size |-> 2,
       chunk_overlap |-> 0],
      [timeout |-> 1, max_chunk_length |-> -1, chunk_size |-> 2,
       chunk_overlap |-> 2],
      [timeout |-> 1, max_chunk_length |-> 4, chunk_size |-> 2,
       chunk_overlap |-> 3],
      [timeout |-> 1, max_chunk_length |-> 4, chunk_size |-> 0,
       chunk_overlap |-> 0],
      [timeout |-> 1, max_chunk_length |-> 4, chunk_size |-> 3,
       chunk_overlap |-> -1] }

\* What the specification asks of a configuration.
ValidConfig(cfg) ==
    /\ cfg.timeout >= 0
    /\ cfg.max_chunk_length >= 0
    /\ cfg.chunk_size >= 0
    /\ cfg.chunk_overlap >= 0
    /\ cfg.chunk_overlap < cfg.chunk_size

\* The argument checks of the text splitter constructed at lines 50-54: it
\* raises ValueError for chunk_size <= 0, for chunk_overlap < 0 and for
\* chunk_overlap > chunk_size.
SplitterAccepts(chunk_size, chunk_overlap) ==
    /\ chunk_size > 0
    /\ chunk_overlap >= 0
    /\ chunk_overlap <= chunk_size

PrimaryUrl == "https://a.test"

\* The URLs of auxiliary links: the primary URL again, and another.
Urls == {PrimaryUrl, "https://b.test"}

NoBrand == [website_url |-> "", links |-> <<>>, links_is_none |-> TRUE]

\* brand.links is None, or a list of at most MaxLinks URLs.
Brands ==
    {[website_url |-> PrimaryUrl, links |-> <<>>, links_is_none |-> TRUE]}
    \cup
    {[website_url |-> PrimaryUrl, links |-> l, links_is_none |-> FALSE] :
        l \in UNION {[1..n -> Urls] : n \in 0..MaxLinks}}

\* The page text the loader returns: "ab cd".
Page == <<"a", "b", SP, "c", "d">>

\* What loader.load does for one URL: it returns a list of documents (none,
\* or one with a page text), raises an Exception, or raises a BaseException
\* that is no Exception (asyncio.CancelledError, for one).
Outcomes ==
    {[kind |-> "docs", docs |-> d] : d \in {<<>>, <<Page>>}}
    \cup {[kind |-> "error", docs |-> <<>>], [kind |-> "base", docs |-> <<>>]}

NoOutcome == [kind |-> "none", docs |-> <<>>]

\* A value in a result slot: a str, or an exception object.
Str(s) == [kind |-> "str", val |-> s]
Exc == [kind |-> "exc", val |-> <<>>]
NoResult == [kind |-> "none", val |-> <<>>]

\* A mutant of UrlList: a link already in the list is not added again.
RECURSIVE Dedup(_, _)
Dedup(seen, l) ==
    IF l = <<>> THEN seen
    ELSE IF \E j \in 1..Len(seen) : seen[j] = Head(l)
         THEN Dedup(seen, Tail(l))
         ELSE Dedup(Append(seen, Head(l)), Tail(l))

UrlListDeduplicated(b) ==
    IF ~b.links_is_none /\ b.links # <<>>
    THEN Dedup(<<b.website_url>>, b.links)
    ELSE <<b.website_url>>

\* Lines 78-80: the URL list of a Brand.
UrlList(b) ==
    IF ~b.links_is_none /\ b.links # <<>>
    THEN <<b.website_url>> \o b.links
    ELSE <<b.website_url>>

\* A mutant of LoadDocument: the handler of line 107 is missing, so a
\* raised Exception ends the task.
LoadDocumentUnguarded(o) ==
    IF o.kind = "docs" THEN Str(Join(o.docs, <<NL, NL>>)) ELSE Exc

\* Lines 102-108: what the task of _load_document ends with. An Exception
\* is caught and becomes ""; a BaseException passes `except Exception` and
\* ends the task, and gather(return_exceptions=True) keeps the exception
\* object as the task's result.
LoadDocument(o) ==
    IF o.kind = "docs" THEN Str(Join(o.docs, <<NL, NL>>))
    ELSE IF o.kind = "error" THEN Str(<<>>)
    ELSE Exc

\* A mutant of GatherResults: the results in the order the tasks ended.
GatherInCompletionOrder(f, ord) == [j \in 1..Len(ord) |-> f[ord[j]]]

\* Line 84: gather returns the tasks' results in the order of the tasks.
GatherResults(f, ord) == [j \in 1..Len(ord) |-> f[j]]

\* `if result:` of line 87: a str is true when not empty, an exception
\* object is true.
Truthy(r) == IF r.kind = "str" THEN r.val # <<>> ELSE TRUE

\* len(content) of line 123 raises TypeError for an exception object.
ChunkRaises(r) == r.kind # "str"

Positions == 1..Len(urls)

\* The positions whose loader call occupies a worker thread.
Busy(t) == {i \in DOMAIN t : t[i] \in {"running", "overdue"}}

\* A mutant of Submit: the executor has a single worker thread.
SubmitToOneWorker(t, i) == [t EXCEPT ![i] = IF Busy(t) = {} THEN "running" ELSE "queued"]

\* asyncio.to_thread(loader.load) of line 104: the call is submitted to the
\* default executor. A worker thread takes it at once if one is free;
\* otherwise it waits in the executor's queue.
Submit(t, i) == [t EXCEPT ![i] = IF Cardinality(Busy(t)) < Workers THEN "running" ELSE "queued"]

\* A worker thread that has become free takes the call that waited longest
\* (the executor's queue is first in, first out, and the calls were
\* submitted in position order).
Dispatch(t) ==
    LET waiting == {i \in DOMAIN t : t[i] = "queued"}
    IN  IF waiting = {} \/ Cardinality(Busy(t)) >= Workers THEN t
        ELSE [t EXCEPT ![CHOOSE i \in waiting : \A j \in waiting : i <= j] = "running"]

\* loader.load is invoked at each position whose call a worker has taken.
Invoked(c, t, after) == [j \in DOMAIN c |-> IF t[j] # "running" /\ after[j] = "running" THEN c[j] + 1 ELSE c[j]]

\* A mutant of TaskAfter: a task whose loader raised starts over.
TaskRetriesOnError(o) == IF o.kind = "error" THEN "pending" ELSE "done"

\* Lines 105-108: whatever the loader did, _load_document returns (or the
\* error leaves it) and the task has ended.
TaskAfter(o) == "done"

\* A mutant of WriteSlot: the result goes to the first slot still empty.
WriteSlotFirstEmpty(f, i, r) == [f EXCEPT ![CHOOSE j \in DOMAIN f : f[j].kind = "none" /\ \A h \in 1..(j - 1) : f[h].kind # "none"] = r]

\* The task at position i ends with r: gather keeps r for position i.
WriteSlot(f, i, r) == [f EXCEPT ![i] = r]

\* A mutant of AllDone: gather returns once some task has ended.
SomeDone(t) == \E i \in DOMAIN t : t[i] = "done"

\* `await asyncio.gather(*tasks, ...)` of line 84 resumes when every task
\* has ended.
AllDone(t) == \A i \in DOMAIN t : t[i] = "done"

\* ---------------------------------------------------------------- actions

Init ==
    /\ pc = "new"
    /\ crawler = NoCrawler
    /\ brand = NoBrand
    /\ urls = <<>>
    /\ task = <<>>
    /\ outcome = <<>>
    /\ calls = <<>>
    /\ fut = <<>>
    /\ order = <<>>
    /\ results = <<>>
    /\ chunks = <<>>
    /\ origin = <<>>
    /\ again = FALSE
    /\ content = <<>>

\* Crawler.__init__ (lines 48-54): the attributes are stored as given; only
\* the text splitter checks its two arguments.
Construct ==
    /\ pc = "new"
    /\ \E args \in CrawlerArgs :
          IF SplitterAccepts(args.chunk_size, args.chunk_overlap)
          THEN crawler' = args /\ pc' = "idle"
          ELSE crawler' = crawler /\ pc' = "rejected"
    /\ UNCHANGED <<brand, urls, task, outcome, calls, fut, order, results,
                   chunks, origin, again, content>>

\* A mutant of FreshList: the list the last crawl filled is used again.
ListOfLastCrawl == chunks

\* `chunks = []` of line 82.
FreshList == <<>>

\* _async_crawl(brand), lines 78-84 up to the await: the URL list is built,
\* the chunk list is made and one _load_document task per entry is handed
\* to gather. All of these are locals of this call.
CrawlOf(b) ==
    /\ brand' = b
    /\ urls' = UrlList(b)
    /\ task' = [i \in 1..Len(UrlList(b)) |-> "pending"]
    /\ outcome' = [i \in 1..Len(UrlList(b)) |-> NoOutcome]
    /\ calls' = [i \in 1..Len(UrlList(b)) |-> 0]
    /\ fut' = [i \in 1..Len(UrlList(b)) |-> NoResult]
    /\ pc' = "gather"
    /\ chunks' = FreshList
    /\ origin' = <<>>
    /\ order' = <<>>
    /\ results' = <<>>
    /\ UNCHANGED <<crawler, content>>

\* crawl(brand), lines 56-66, on a Crawler that has not crawled yet.
Crawl ==
    /\ pc = "idle"
    /\ \E b \in Brands : CrawlOf(b)
    /\ UNCHANGED again

\* crawl(brand) once more, with the same Brand object, after the first
\* crawl has returned or raised.
CrawlAgain ==
    /\ pc \in {"done", "raised"}
    /\ ~again
    /\ again' = TRUE
    /\ CrawlOf(brand)

\* Lines 103-104: task i runs up to `await asyncio.to_thread(loader.load)`.
\* The event loop runs the tasks' first steps in the order gather made them.
Start(i) ==
    /\ pc = "gather"
    /\ task[i] = "pending"
    /\ \A j \in 1..(i - 1) : task[j] # "pending"
    /\ LET after == Submit(task, i)
       IN  task' = after /\ calls' = Invoked(calls, task, after)
    /\ UNCHANGED <<pc, crawler, brand, urls, outcome, fut, order, results,
                   chunks, origin, again, content>>

\* `timeout` seconds pass while the loader of task i runs. self.timeout is
\* stored at line 48 and read nowhere: the task goes on waiting for the
\* loader, now past its time ("overdue").
TimeoutElapses(i) ==
    /\ pc = "gather"
    /\ task[i] = "running"
    /\ task' = [task EXCEPT ![i] = "overdue"]
    /\ UNCHANGED <<pc, crawler, brand, urls, outcome, calls, fut, order,
                   results, chunks, origin, again, content>>

\* Lines 104-108: the loader of task i returns or raises and the task ends.
\* Its worker thread is free again and takes the next waiting call.
Settle(i) ==
    /\ pc = "gather"
    /\ task[i] \in {"running", "overdue"}
    /\ \E o \in Outcomes :
          LET after == Dispatch([task EXCEPT ![i] = TaskAfter(o)])
          IN  /\ outcome' = [outcome EXCEPT ![i] = o]
              /\ fut' = WriteSlot(fut, i, LoadDocument(o))
              /\ task' = after
              /\ calls' = Invoked(calls, task, after)
    /\ order' = Append(order, i)
    /\ UNCHANGED <<pc, crawler, brand, urls, results, chunks, origin,
                   again, content>>

\* A mutant of Extend: a chunk already in the list is not added again.
RECURSIVE ExtendDeduplicated(_, _)
ExtendDeduplicated(cs, new) ==
    IF new = <<>> THEN cs
    ELSE IF \E j \in 1..Len(cs) : cs[j] = Head(new)
         THEN ExtendDeduplicated(cs, Tail(new))
         ELSE ExtendDeduplicated(Append(cs, Head(new)), Tail(new))

\* chunks.extend(...) of line 88.
Extend(cs, new) == cs \o new

\* Lines 86-88: the for loop over the results from position i on. It ends
\* with the chunks, or raised: an exception object is true at line 87 and
\* len() of line 123 raises TypeError for it.
RECURSIVE CrawlLoop(_, _, _, _, _)
CrawlLoop(res, i, cs, orig, cfg) ==
    IF i > Len(res) THEN [raised |-> FALSE, chunks |-> cs, origin |-> orig]
    ELSE IF ~Truthy(res[i]) THEN CrawlLoop(res, i + 1, cs, orig, cfg)
    ELSE IF ChunkRaises(res[i])
         THEN [raised |-> TRUE, chunks |-> <<>>, origin |-> <<>>]
    ELSE LET new == ChunkContent(res[i].val, cfg)
         IN  CrawlLoop(res, i + 1, Extend(cs, new),
                       Extend(orig, [j \in 1..Len(new) |-> i]), cfg)

\* Lines 84-90: every task has ended, gather returns the results, the loop
\* chunks them and crawl returns (or raises). Nothing is awaited after
\* gather, so this is one step of the event loop.
Finish ==
    /\ pc = "gather"
    /\ AllDone(task)
    /\ LET gathered == GatherResults(fut, order)
           end == CrawlLoop(gathered, 1, chunks, origin, crawler)
       IN  /\ results' = gathered
           /\ pc' = IF end.raised THEN "raised" ELSE "done"
           /\ chunks' = end.chunks
           /\ origin' = end.origin
    /\ UNCHANGED <<crawler, brand, urls, task, outcome, calls, fut, order,
                   again, content>>

Next ==
    \/ Construct
    \/ Crawl
    \/ \E i \in Positions : Start(i)
    \/ \E i \in Positions : TimeoutElapses(i)
    \/ \E i \in Positions : Settle(i)
    \/ Finish

Spec == Init /\ [][Next]_vars

\* Fair scheduling with loaders that end: the event loop runs every ready
\* task (Start, and the resumption of _async_crawl in Finish), and every
\* loader call a worker has taken returns or raises in the end (Settle).
\* Finish is enabled exactly when AllDone(task) holds at the await, and a
\* Finish step ends that; its weak fairness is written with this state
\* predicate.
Fairness ==
    /\ \A i \in 1..(MaxLinks + 1) : WF_vars(i \in Positions /\ Start(i))
    /\ \A i \in 1..(MaxLinks + 1) : WF_vars(i \in Positions /\ Settle(i))
    /\ []<>~(pc = "gather" /\ AllDone(task))

SpecFair == Init /\ [][Next]_vars /\ Fairness

\* The Crawler is used for a second crawl.
NextAgain ==
    \/ Next
    \/ CrawlAgain

SpecAgain == Init /\ [][NextAgain]_vars

\* ------------------------------------------------------------- the chunker

\* The configurations _chunk_content is applied with in SpecChunk: every
\* valid one within the bounds.
ChunkConfigs ==
    {[timeout |-> 1, max_chunk_length |-> m, chunk_size |-> cs,
      chunk_overlap |-> ov] :
        m \in {0, 1, MaxTextLen - 2, MaxTextLen}, cs \in 1..MaxChunkSize,
        ov \in 0..(MaxChunkSize - 1)}

InitChunk ==
    /\ pc = "idle"
    /\ crawler \in {c \in ChunkConfigs : ValidConfig(c)}
    /\ content \in Texts(MaxTextLen)
    /\ brand = NoBrand
    /\ urls = <<>>
    /\ task = <<>>
    /\ outcome = <<>>
    /\ calls = <<>>
    /\ fut = <<>>
    /\ order = <<>>
    /\ results = <<>>
    /\ chunks = <<>>
    /\ origin = <<>>
    /\ again = FALSE

\* _chunk_content(content), lines 120-126.
Chunk ==
    /\ pc = "idle"
    /\ chunks' = ChunkContent(content, crawler)
    /\ pc' = "chunked"
    /\ UNCHANGED <<crawler, brand, urls, task, outcome, calls, fut, order,
                   results, origin, again, content>>

NextChunk == Chunk

SpecChunk == InitChunk /\ [][NextChunk]_vars

\* ------------------------------------------------------------------ claims

\* The loader of position i delivered a page text.
Succeeded(i) == outcome[i].kind = "docs" /\ outcome[i].docs # <<>>

\* The loader of position i raised an Exception or delivered nothing.
FailedOrEmpty(i) ==
    \/ outcome[i].kind = "error"
    \/ outcome[i].kind = "docs" /\ outcome[i].docs = <<>>

\* The chunks the text delivered for position i makes, none when the fetch
\* failed or was empty.
ChunksFor(i) ==
    IF Succeeded(i) THEN ChunkContent(outcome[i].docs[1], crawler) ELSE <<>>

\* The chunks of the output made from the result at position i, in order.
ChunksFrom(i) ==
    LET at == SelectSeq([j \in 1..Len(chunks) |-> j],
                        LAMBDA j : origin[j] = i)
    IN  [m \in 1..Len(at) |-> chunks[at[m]]]

Prefix(s, n) == SubSeq(s, 1, n)
Suffix(s, n) == SubSeq(s, Len(s) - n + 1, Len(s))
Drop(s, n) == SubSeq(s, n + 1, Len(s))
NonWhitespace(s) == SelectSeq(s, LAMBDA c : c \notin Whitespace)

\* C1: fetch isolation. A fetch that raised an Exception or delivered
\* nothing leaves the empty string in its own slot, a fetch that delivered a
\* text leaves that text in its slot whatever the other fetches did; when
\* every loader delivered a text, raised an Exception or delivered nothing,
\* crawl does not raise, and when it returns its output is exactly the
\* chunks of the succeeding URLs in list order.
FetchIsolation ==
    /\ \A i \in Positions :
          task[i] = "done" =>
             /\ FailedOrEmpty(i) => fut[i] = Str(<<>>)
             /\ Succeeded(i) => fut[i] = Str(outcome[i].docs[1])
    /\ (\A i \in Positions : Succeeded(i) \/ FailedOrEmpty(i)) =>
          pc # "raised"
    /\ pc = "done" =>
          chunks = Flatten([i \in Positions |-> ChunksFor(i)])

\* C1 witness: crawl returned with one fetch failed by an Exception and
\* another, later in the list, succeeded and chunked.
FetchIsolationWitness ==
    /\ pc = "done"
    /\ \E i, j \in Positions :
          /\ i < j
          /\ outcome[i].kind = "error"
          /\ Succeeded(j)
          /\ ChunksFrom(j) # <<>>

\* C2: crawl never raises for a per-URL fetch problem, whatever the loader
\* did (any exception, cancellation, empty payload), and returns the empty
\* sequence when every fetch failed.
CrawlNeverRaises ==
    /\ pc # "raised"
    /\ (pc = "done" /\ \A i \in Positions : ~Succeeded(i)) => chunks = <<>>

TimeoutBoundsFetch ==
    \A i \in Positions : task[i] # "overdue"

\* C5: the output of crawl is the concatenation, in list order, of the
\* chunks of each non-empty result; empty results add nothing and equal
\* chunks of different results all stay.
OutputIsConcatenation ==
    pc = "done" =>
       /\ Len(results) = Len(urls)
       /\ chunks = Flatten([i \in 1..Len(results) |->
                              IF results[i].val # <<>>
                              THEN ChunkContent(results[i].val, crawler)
                              ELSE <<>>])

\* C5 witness: crawl returned with two non-empty results of the same text
\* and an empty one, the chunks of the text twice in the output.
OutputIsConcatenationWitness ==
    /\ pc = "done"
    /\ \E i, j, e \in 1..Len(results) :
          /\ i < j
          /\ results[i].val # <<>>
          /\ results[j] = results[i]
          /\ results[e].val = <<>>
          /\ Len(chunks) = 2 * Len(ChunkContent(results[i].val, crawler))
    /\ chunks # <<>>

\* C6: the URL list is the primary URL followed by the links in their
\* order, duplicates kept; there is one fetch task per entry and, when crawl
\* returns, one result per entry.
UrlListDerived ==
    pc \in {"gather", "done", "raised"} =>
       /\ Len(urls) = 1 + Len(brand.links)
       /\ urls[1] = brand.website_url
       /\ \A j \in 1..Len(brand.links) : urls[j + 1] = brand.links[j]
       /\ DOMAIN task = 1..Len(urls)
       /\ pc = "done" => Len(results) = Len(urls)

\* C6 witness: crawl returned for a Brand with two equal links, both equal
\* to the primary URL, each fetched as its own entry.
UrlListDerivedWitness ==
    /\ pc = "done"
    /\ Len(brand.links) = 2
    /\ brand.links[1] = brand.website_url
    /\ brand.links[2] = brand.links[1]
    /\ Len(order) = 3

\* C7: every chunk the chunker returns under a valid configuration is at
\* most chunk_size long.
ChunkSizeBound ==
    pc = "chunked" =>
       \A j \in 1..Len(chunks) : Len(chunks[j]) <= crawler.chunk_size

\* C7 witness: a text longer than chunk_size was split into several chunks,
\* one of them of the full chunk_size and made of pieces merged across a
\* space.
ChunkSizeBoundWitness ==
    /\ pc = "chunked"
    /\ crawler.chunk_size >= 3
    /\ Len(content) > crawler.chunk_size
    /\ Len(chunks) >= 2
    /\ \E j \in 1..Len(chunks) :
          /\ Len(chunks[j]) = crawler.chunk_size
          /\ chunks[j][2] = SP

\* The text the splitter is given.
Source == Truncate(content, crawler.max_chunk_length)

\* C8 as stated: for adjacent chunks A, B the first `overlap` characters of
\* B are the last of A, and A followed by B without its first `overlap`
\* characters is a contiguous slice of the truncated source.
OverlapContiguity ==
    pc = "chunked" =>
       \A j \in 1..(Len(chunks) - 1) :
          LET A == chunks[j]
              B == chunks[j + 1]
              n == Min(crawler.chunk_overlap, Min(Len(A), Len(B)))
          IN  /\ Suffix(A, n) = Prefix(B, n)
              /\ IsSlice(A \o Drop(B, n), Source)

\* A, some whitespace, and B without its first n characters lie one after
\* the other in text.
GluedByWhitespace(A, B, n, text) ==
    \E p \in 1..(Len(text) + 1), q \in 1..(Len(text) + 1) :
       /\ p + Len(A) - 1 <= Len(text)
       /\ SubSeq(text, p, p + Len(A) - 1) = A
       /\ q >= p + Len(A)
       /\ q + (Len(B) - n) - 1 <= Len(text)
       /\ SubSeq(text, q, q + (Len(B) - n) - 1) = Drop(B, n)
       /\ \A t \in (p + Len(A))..(q - 1) : text[t] \in Whitespace

\* C8 as amended: for adjacent chunks A, B there is an n from 0 to
\* `overlap` such that the first n characters of B are the last n of A and
\* A, then only whitespace, then B without its first n characters is a
\* contiguous slice of the truncated source.
OverlapUpToWhitespace ==
    pc = "chunked" =>
       \A j \in 1..(Len(chunks) - 1) :
          LET A == chunks[j]
              B == chunks[j + 1]
          IN  \E n \in 0..Min(crawler.chunk_overlap, Min(Len(A), Len(B))) :
                 /\ Suffix(A, n) = Prefix(B, n)
                 /\ GluedByWhitespace(A, B, n, Source)

\* C8 witness: from one text, adjacent chunks that share text (and do not
\* fit the source without the shared text counted once), and adjacent
\* chunks with a space of the source stripped between them.
OverlapUpToWhitespaceWitness ==
    /\ pc = "chunked"
    /\ Len(chunks) >= 3
    /\ \E j \in 1..(Len(chunks) - 1) :
          LET A == chunks[j]
              B == chunks[j + 1]
          IN  /\ \E n \in 1..Min(crawler.chunk_overlap, Min(Len(A), Len(B))) :
                    /\ Suffix(A, n) = Prefix(B, n)
                    /\ GluedByWhitespace(A, B, n, Source)
              /\ ~GluedByWhitespace(A, B, 0, Source)
    /\ \E j \in 1..(Len(chunks) - 1) :
          /\ IsSlice(chunks[j] \o <<SP>> \o chunks[j + 1], Source)
          /\ ~IsSlice(chunks[j] \o chunks[j + 1], Source)

\* C9: truncation. The chunks of a text longer than max_chunk_length are
\* those of its first max_chunk_length characters alone, every chunk a
\* slice of that prefix; a text within the limit is split in full; and with
\* no overlap the chunks hold exactly the prefix's characters other than
\* whitespace, each once, in order.
TruncationToPrefix ==
    pc = "chunked" =>
       LET head == SubSeq(content, 1,
                          Min(crawler.max_chunk_length, Len(content)))
       IN  /\ chunks = IF content = <<>> THEN <<>>
                       ELSE SplitText(head, 1, crawler.chunk_size,
                                      crawler.chunk_overlap)
           /\ \A j \in 1..Len(chunks) : IsSlice(chunks[j], head)
           /\ crawler.chunk_overlap = 0 =>
                 NonWhitespace(Flatten(chunks)) = NonWhitespace(head)

\* C9 witness: a text longer than max_chunk_length, ending in a letter the
\* prefix does not hold, was chunked into several chunks.
TruncationToPrefixWitness ==
    /\ pc = "chunked"
    /\ Len(content) > crawler.max_chunk_length
    /\ content[Len(content)] = "b"
    /\ \A t \in 1..crawler.max_chunk_length : content[t] # "b"
    /\ crawler.chunk_size >= 2
    /\ crawler.chunk_overlap >= 1
    /\ Len(chunks) >= 2

\* C10: a Crawler exists, and a crawl runs, only with a valid
\* configuration: an invalid one was rejected at construction.
ConstructionRejectsInvalid ==
    pc \notin {"new", "rejected"} => ValidConfig(crawler)

\* C11: the chunker returns the empty sequence for the empty text; for a
\* text of whitespace only it returns no chunk that holds anything but
\* whitespace, and no chunk at all once chunk_size is 2 or more (with
\* chunk_size 1 the single whitespace characters come back as chunks). It
\* raises in neither case: the call ends with a sequence.
EmptyInputYieldsNoChunks ==
    pc = "chunked" =>
       /\ content = <<>> => chunks = <<>>
       /\ (\A t \in 1..Len(content) : content[t] \in Whitespace) =>
             /\ \A j \in 1..Len(chunks) :
                   \A t \in 1..Len(chunks[j]) : chunks[j][t] \in Whitespace
             /\ crawler.chunk_size >= 2 => chunks = <<>>

\* C11 witness: a text of blanks and newlines, not cut short, was chunked
\* with a chunk_size that lets the splitter merge pieces; no chunk came out.
EmptyInputYieldsNoChunksWitness ==
    /\ pc = "chunked"
    /\ Len(content) >= 3
    /\ \A t \in 1..Len(content) : content[t] \in Whitespace
    /\ \E t \in 1..Len(content) : content[t] = SP
    /\ \E t \in 1..Len(content) : content[t] = NL
    /\ crawler.max_chunk_length >= Len(content)
    /\ crawler.chunk_size >= 2
    /\ chunks = <<>>

\* C12: the chunker fails for no value crawl hands it: every result that
\* passes the test of line 87, a stand-in object that is no text included,
\* gets a chunk sequence back from _chunk_content.
ChunkerNeverFails ==
    pc \in {"done", "raised"} =>
       \A i \in 1..Len(results) :
          Truthy(results[i]) => ~ChunkRaises(results[i])

\* C13: the join barrier. While some fetch task has not ended, gather has
\* returned nothing, no result was chunked and crawl has not ended; once it
\* has, every task has ended and there is one result per URL.
JoinBarrier ==
    /\ (pc = "gather" /\ ~AllDone(task)) => (chunks = <<>> /\ origin = <<>>)
    /\ pc \in {"done", "raised"} =>
          /\ AllDone(task)
          /\ Len(results) = Len(urls)
          /\ \A i \in Positions : results[i] = fut[i] /\ fut[i] # NoResult

\* C13 witness: crawl has returned chunks; the first fetch to end had
\* nothing to chunk and the last one delivered the page: the chunks waited
\* for all of them.
JoinBarrierWitness ==
    /\ pc = "done"
    /\ Len(urls) >= 3
    /\ chunks # <<>>
    /\ ~Succeeded(order[1])
    /\ Succeeded(order[Len(order)])

\* C14 as stated: fetches never wait for one another. For a URL list of
\* any length, no task that has reached asyncio.to_thread has its loader
\* call held back until another loader call completes.
FetchesNeverWait ==
    \A i \in Positions : task[i] # "queued"

\* C14 amended: the loader calls of the first Workers entries start without
\* waiting; a later entry's loader call waits only while every worker
\* thread is held by the loader call of an earlier entry.
FetchesWaitOnlyForWorkers ==
    \A i \in Positions :
       /\ i <= Workers => task[i] # "queued"
       /\ task[i] = "queued" =>
             /\ Cardinality(Busy(task)) = Workers
             /\ \A j \in Busy(task) : j < i

\* C14 witness: the first loader is past its time and still running, a
\* later loader call was started beside it and runs, and the last entry's
\* call waits for a worker.
FetchesWaitOnlyForWorkersWitness ==
    /\ pc = "gather"
    /\ task[1] = "overdue"
    /\ \E i \in Positions : task[i] = "running"
    /\ task[Len(urls)] = "queued"

\* C15: no retry. loader.load is invoked at most once per URL-list entry:
\* not before a worker takes the call, once from then on, whatever the
\* loader did; when crawl ends it was invoked exactly once for every entry.
NoRetry ==
    /\ \A i \in Positions :
          calls[i] = IF task[i] \in {"pending", "queued"} THEN 0 ELSE 1
    /\ pc \in {"done", "raised"} => \A i \in Positions : calls[i] = 1

\* C15 witness: crawl returned after one loader raised, one delivered no
\* document and one delivered the page; each was invoked once.
NoRetryWitness ==
    /\ pc = "done"
    /\ \E i \in Positions : outcome[i].kind = "error"
    /\ \E i \in Positions : outcome[i].kind = "docs" /\ outcome[i].docs = <<>>
    /\ \E i \in Positions : Succeeded(i)
    /\ \A i \in Positions : calls[i] = 1

\* C16: result-slot isolation. While the tasks run, a step changes the slot
\* of position i only if it is the step that ends task i, and it puts there
\* what task i made of its own loader's outcome; a filled slot is never
\* written again. When gather returns, slot i of results holds that value.
SlotIsolation ==
    [][/\ (pc = "gather" /\ pc' = "gather") =>
             \A i \in Positions :
                /\ fut[i] # NoResult => fut'[i] = fut[i]
                /\ fut'[i] # fut[i] =>
                      /\ task[i] \in {"running", "overdue"}
                      /\ task'[i] = "done"
                      /\ fut'[i] = LoadDocument(outcome'[i])
       /\ (pc = "gather" /\ pc' \in {"done", "raised"}) =>
             \A i \in Positions : results'[i] = LoadDocument(outcome[i])]_vars

\* C16 witness: the second task has ended with the page's text while the
\* first still runs, its slot empty; then crawl returned with the first
\* slot holding the first task's (empty) result.
SlotIsolationWitness ==
    /\ pc = "done"
    /\ Len(urls) >= 2
    /\ order[1] = 2
    /\ results[2].val # <<>>
    /\ results[1] = Str(<<>>)

\* C17: every element of the results gather returned is a text string: no
\* exception object that got past `except Exception` stands in a slot, to
\* be taken for a non-empty result and passed to _chunk_content.
ResultsAreTexts ==
    \A i \in 1..Len(results) : results[i].kind = "str"

\* C18: under fair scheduling with loader calls that all return or raise,
\* a crawl that has dispatched its fetches eventually returns, with one
\* settled result per URL, also when the URL list is longer than the
\* number of worker threads.
CrawlEventuallyReturns ==
    (pc = "gather") ~> (pc = "done" /\ Len(results) = Len(urls))

\* Under the same fairness every crawl does come to an end, with one
\* settled result per URL: by returning, or by raising out of the loop of
\* lines 86-88.
CrawlEventuallyEnds ==
    (pc = "gather") ~>
       (pc \in {"done", "raised"} /\ Len(results) = Len(urls) /\ AllDone(task))

\* C19: crawl leaves its inputs and the Crawler as they were. From the
\* dispatch of the fetches to the end of the call no step changes the
\* Brand, the Crawler's configuration or the URL list; a second crawl of
\* the same Brand starts from the same Brand and configuration, builds the
\* same URL list anew and starts with no chunks; and what any crawl
\* returns, the second included, is made of the Brand, the configuration
\* and this crawl's loader outcomes alone, so that the same outcomes give
\* the same chunk sequence.
CrawlLeavesNoTrace ==
    /\ [][pc = "gather" =>
             (brand' = brand /\ crawler' = crawler /\ urls' = urls)]_vars
    /\ [][(pc \in {"done", "raised"} /\ pc' = "gather") =>
             /\ brand' = brand
             /\ crawler' = crawler
             /\ urls' = urls
             /\ urls' = UrlList(brand)
             /\ chunks' = <<>>
             /\ \A i \in Positions : fut'[i] = NoResult /\ calls'[i] = 0]_vars
    /\ [](pc = "done" =>
             chunks = Flatten([i \in Positions |-> ChunksFor(i)]))

\* C19 witness: the second crawl of a Brand with links has returned chunks,
\* one of its fetches having failed.
CrawlLeavesNoTraceWitness ==
    /\ again
    /\ pc = "done"
    /\ Len(urls) >= 2
    /\ chunks # <<>>
    /\ \E i \in Positions : outcome[i].kind = "error"

====
